---- MODULE Spec2Model ----
(***************************************************************************)
(* Model of honeray_criterion.py: the cyclic-group morphisms (key,         *)
(* transpose, modulation), the predicates w, i, n, the five-part criterion *)
(* obeys_honerays_crit, and the exhaustive sweep find_stats.               *)
(*                                                                         *)
(* Python lists are 0-based and TLA+ sequences 1-based: the element the    *)
(* code calls xs[j] is xs[j + 1] here.  A closure is represented by the    *)
(* variables it captures (k and k_inv by the tonic letter, p by the shift  *)
(* c, m by the triple (k, p, k_inv)) and applied by the operator of the    *)
(* same name.  The global tables are state variables, because Python lists *)
(* are mutable and the closures read `letters` when they are called.       *)
(* The list `results` of find_stats is kept as a bag of booleans: the code *)
(* only appends to it, takes its length and counts its true elements, so   *)
(* the order of its elements is never observed.                            *)
(***************************************************************************)
EXTENDS Integers, Sequences, FiniteSets, Bags, TLC

VARIABLES
    scale_degrees,      \* global table, line 10
    letters,            \* global table, line 11
    pc,                 \* where the program is: "idle", inside find_stats, "done"
    call,               \* observation of the last call made: arguments and outcome
    results,            \* find_stats local, line 118
    start_key_freqs,    \* find_stats local, line 119
    end_key_freqs,      \* find_stats local, line 120
    violation_freqs,    \* find_stats local, line 121
    end_keys,           \* find_stats local, line 126
    end_key_freqs_temp, \* find_stats local, line 130
    it,                 \* positions of the four for-loops (0-based)
    ret                 \* value returned by find_stats, line 172

vars == <<scale_degrees, letters, pc, call, results, start_key_freqs,
          end_key_freqs, violation_freqs, end_keys, end_key_freqs_temp,
          it, ret>>

sweepVars == <<results, start_key_freqs, end_key_freqs, violation_freqs,
               end_keys, end_key_freqs_temp, it, ret>>

(***************************************************************************)
(* Bounds of the model.                                                    *)
(***************************************************************************)
\* How far outside 0..11 the integer handed to a key morphism may lie.
ArgSlack == 1

\* Strings that are not letter names, offered as arguments next to the 12 names.
Unrecognized == {"H"}

(***************************************************************************)
(* Global tables (lines 10-11).                                            *)
(***************************************************************************)
scale_degrees_init ==
    <<"1", "1#", "2", "2#", "3", "4", "4#", "5", "5#", "6", "6#", "7">>

letters_init ==
    <<"C", "C#", "D", "D#", "E", "F", "F#", "G", "G#", "A", "A#", "B">>

(***************************************************************************)
(* Python list primitives.                                                 *)
(***************************************************************************)
\* x in xs
contains(xs, x) == \E j \in 1..Len(xs) : xs[j] = x

\* xs.index(x) when x is in xs: the 0-based position of the first occurrence.
\* (When x is absent Python raises ValueError; callers test contains first.)
index(xs, x) ==
    (CHOOSE j \in 1..Len(xs) :
        xs[j] = x /\ \A h \in 1..(j - 1) : xs[h] # x) - 1

\* xs.remove(x) when x is in xs: xs without the first occurrence of x.
remove(xs, x) ==
    LET j == index(xs, x) + 1
    IN  [h \in 1..(Len(xs) - 1) |-> IF h < j THEN xs[h] ELSE xs[h + 1]]

\* xs.copy()
copy(xs) == xs

\* abs(v)
abs(v) == IF v < 0 THEN 0 - v ELSE v

(***************************************************************************)
(* Predicates on the cyclic group (lines 24-42).                           *)
(***************************************************************************)
w(s) ==
    IF s < 0 \/ s > 11 THEN FALSE
    ELSE s \in {0, 2, 4, 7, 9}

\* i without the complementary measure abs(12 - c)
i_ascending_only(l1, l2) ==
    IF l1 < 0 \/ l1 > 11 \/ l2 < 0 \/ l2 > 11 THEN FALSE
    ELSE LET c0 == l2 - l1
             c  == IF c0 < 0 THEN c0 + 12 ELSE c0
         IN  c \in {0, 2, 3, 4, 5, 7, 9}

i(l1, l2) ==
    IF l1 < 0 \/ l1 > 11 \/ l2 < 0 \/ l2 > 11 THEN FALSE
    ELSE LET c0 == l2 - l1
             c  == IF c0 < 0 THEN c0 + 12 ELSE c0
         IN  (c \in {0, 2, 3, 4, 5, 7, 9}) \/ (abs(12 - c) \in {0, 2, 3, 4, 5, 7, 9})

n(s) ==
    IF s < 0 \/ s > 11 THEN FALSE
    ELSE s \in {0, 2, 4, 5, 6, 7, 9, 10, 11}

(***************************************************************************)
(* key (lines 45-63).  key(letter) returns the sentinel -1 for a string    *)
(* that is not in `letters`, and otherwise the pair (k, k_inv) of closures *)
(* over `letter`.  The returned value is tagged with its Python type.      *)
(***************************************************************************)
\* k without the reduction modulo 12
k_no_wrap(letter, s) ==
    IF s < 0 \/ s > 11 THEN -1
    ELSE s + index(letters, letter)

k(letter, s) ==
    IF s < 0 \/ s > 11 THEN -1
    ELSE (s + index(letters, letter)) % 12

\* k_inv without the reduction modulo 12
k_inv_no_wrap(letter, s) ==
    IF s < 0 \/ s > 11 THEN -1
    ELSE s - index(letters, letter)

k_inv(letter, s) ==
    IF s < 0 \/ s > 11 THEN -1
    ELSE (s - index(letters, letter)) % 12

key(letter) ==
    IF ~contains(letters, letter)
    THEN [type |-> "int", value |-> -1]
    ELSE [type |-> "tuple", k |-> letter, k_inv |-> letter]

(***************************************************************************)
(* transpose (lines 66-72): the closure p over the shift c.                *)
(***************************************************************************)
p(c, l) == (l + c) % 12

transpose(c) == c

(***************************************************************************)
(* modulation (lines 75-83): the closure m over (k, p, k_inv).             *)
(***************************************************************************)
m(mod, s) ==
    IF s < 0 \/ s > 11 THEN -1
    ELSE k_inv(mod.k_inv, p(mod.p, k(mod.k, s)))

modulation(kk, pp, kk_inv) == [k |-> kk, p |-> pp, k_inv |-> kk_inv]

(***************************************************************************)
(* obeys_honerays_crit (lines 86-113).                                     *)
(*                                                                         *)
(* The outcome is either an exception, with the line that raised it, or    *)
(* the returned pair (result, details); `locals` exposes the intermediate  *)
(* quantities of the call.  letters.index raises ValueError for an absent  *)
(* string (line 88 evaluates index(start_letter) before index(start_key);  *)
(* line 95 index(end_letter)); unpacking the -1 that key returns raises    *)
(* TypeError (lines 93, 94).                                               *)
(***************************************************************************)
Raise(exc, line) == [status |-> "raise", exc |-> exc, line |-> line]

\* lines 88-90 without the +12 correction of a negative difference
degree_of_no_correction(start_letter, start_key) ==
    index(letters, start_letter) - index(letters, start_key)

\* lines 88-90
degree_of(start_letter, start_key) ==
    LET s == index(letters, start_letter) - index(letters, start_key)
    IN  IF s < 0 THEN s + 12 ELSE s

\* lines 95-97
shift_of(start_letter, end_letter) ==
    LET c == index(letters, end_letter) - index(letters, start_letter)
    IN  IF c < 0 THEN c + 12 ELSE c

\* lines 104-108, with everything they read
sub_conditions(s, c, kx1, kx1_inv, kx2, kx2_inv) ==
    LET pp == transpose(c)
        mm == modulation(kx1, pp, kx2_inv)
        isOrigin     == w(k_inv(kx2_inv, k(kx1, 0))) \/ w(k_inv(kx1_inv, k(kx2, 0)))
        isInterval   == i(k(kx1, s), k(kx2, m(mm, s)))
        isNatural    == n(s) /\ n(m(mm, s))
        isCommon     == w(s) /\ w(m(mm, s))
                            /\ (s = m(mm, s) \/ k(kx1, s) = p(pp, k(kx1, s)))
        isTransition == (w(k_inv(kx1_inv, p(pp, k(kx1, s)))) /\ w(s))
                            \/ (w(k_inv(kx2_inv, k(kx1, s))) /\ w(m(mm, s)))
    IN  <<isOrigin, isInterval, isNatural, isCommon, isTransition>>

\* line 111 with the parentheses around (isCommon or isTransition) lost
verdict_unparenthesised(details) ==
    (details[1] /\ details[2] /\ details[3] /\ details[4]) \/ details[5]

\* line 111
verdict(details) ==
    details[1] /\ details[2] /\ details[3] /\ (details[4] \/ details[5])

\* the quantities the call computes on the way (Python's `and`/`or` may skip
\* some of them; all are listed)
locals_of(s, c, kx1, kx1_inv, kx2, kx2_inv) ==
    LET pp == transpose(c)
        mm == modulation(kx1, pp, kx2_inv)
    IN  [s          |-> s,
         c          |-> c,
         kx1_s      |-> k(kx1, s),
         p_kx1_s    |-> p(pp, k(kx1, s)),
         m_s        |-> m(mm, s),
         kx2_m_s    |-> k(kx2, m(mm, s)),
         origin_1   |-> k_inv(kx2_inv, k(kx1, 0)),
         origin_2   |-> k_inv(kx1_inv, k(kx2, 0)),
         kx1_0      |-> k(kx1, 0),
         kx2_0      |-> k(kx2, 0),
         bridge_1   |-> k_inv(kx1_inv, p(pp, k(kx1, s))),
         bridge_2   |-> k_inv(kx2_inv, k(kx1, s))]

obeys_honerays_crit(start_key, end_key, start_letter, end_letter) ==
    IF ~contains(letters, start_letter) \/ ~contains(letters, start_key)
    THEN Raise("ValueError", 88)
    ELSE LET s  == degree_of(start_letter, start_key)
             K1 == key(start_key)
             K2 == key(end_key)
         IN  IF K1.type # "tuple" THEN Raise("TypeError", 93)
             ELSE IF K2.type # "tuple" THEN Raise("TypeError", 94)
             ELSE IF ~contains(letters, end_letter) THEN Raise("ValueError", 95)
             ELSE LET c       == shift_of(start_letter, end_letter)
                      details == sub_conditions(s, c, K1.k, K1.k_inv, K2.k, K2.k_inv)
                  IN  [status  |-> "return",
                       line    |-> 113,
                       result  |-> verdict(details),
                       details |-> details,
                       locals  |-> locals_of(s, c, K1.k, K1.k_inv, K2.k, K2.k_inv)]

(***************************************************************************)
(* State after the module is loaded (lines 10-11); nothing has been called *)
(* and find_stats has no frame.                                            *)
(***************************************************************************)
NoFrame ==
    /\ results = EmptyBag
    /\ start_key_freqs = <<>>
    /\ end_key_freqs = <<>>
    /\ violation_freqs = <<>>
    /\ end_keys = <<>>
    /\ end_key_freqs_temp = <<>>
    /\ it = [start_key |-> 0, end_key |-> 0, note_1 |-> 0, note_2 |-> 0]

Init ==
    /\ scale_degrees = scale_degrees_init
    /\ letters = letters_init
    /\ pc = "idle"
    /\ call = [op |-> "none"]
    /\ ret = [status |-> "none"]
    /\ NoFrame

\* The strings a caller may pass: the 12 letter names and the unrecognized ones.
Inputs == {letters_init[j] : j \in 1..Len(letters_init)} \cup Unrecognized

\* The integers a caller may pass to a key morphism.
Args == (0 - ArgSlack)..(11 + ArgSlack)

(***************************************************************************)
(* A call of obeys_honerays_crit from outside find_stats (line 193, or any *)
(* importer of the module).  The program is single-threaded: such a call   *)
(* happens before or after a run of find_stats, not during one, and after  *)
(* the caller has let go of the previous call's value (Discard).           *)
(***************************************************************************)
CanCall == pc \in {"idle", "done"} /\ call.op = "none"

Evaluate(start_key, end_key, start_letter, end_letter) ==
    /\ CanCall
    /\ call' = [op   |-> "obeys_honerays_crit",
                args |-> <<start_key, end_key, start_letter, end_letter>>,
                out  |-> obeys_honerays_crit(start_key, end_key,
                                             start_letter, end_letter)]
    /\ UNCHANGED <<scale_degrees, letters, pc>>
    /\ UNCHANGED sweepVars

(***************************************************************************)
(* A call of key(letter) followed, when it returned a pair, by calls of    *)
(* the two morphisms on x and on each other's result (lines 45-63).        *)
(***************************************************************************)
MakeKey(letter, x) ==
    /\ CanCall
    /\ LET K == key(letter)
       IN  call' = [op   |-> "key",
                    args |-> <<letter, x>>,
                    out  |-> K,
                    app  |-> IF K.type = "tuple"
                             THEN [k       |-> k(K.k, x),
                                   k_inv   |-> k_inv(K.k_inv, x),
                                   k_inv_k |-> k_inv(K.k_inv, k(K.k, x)),
                                   k_k_inv |-> k(K.k, k_inv(K.k_inv, x))]
                             ELSE [k |-> -1, k_inv |-> -1,
                                   k_inv_k |-> -1, k_k_inv |-> -1]]
    /\ UNCHANGED <<scale_degrees, letters, pc>>
    /\ UNCHANGED sweepVars

(***************************************************************************)
(* The caller lets go of the value the last call returned (or of the       *)
(* exception it raised) and goes on.                                       *)
(***************************************************************************)
Discard ==
    /\ pc \in {"idle", "done"}
    /\ call.op # "none"
    /\ call' = [op |-> "none"]
    /\ UNCHANGED <<scale_degrees, letters, pc>>
    /\ UNCHANGED sweepVars

(***************************************************************************)
(* find_stats (lines 116-172), one action per step of its loops.           *)
(***************************************************************************)
\* [0, 0, ..., 0] of the length written in the source
zeros12 == <<0, 0, 0, 0, 0, 0, 0, 0, 0, 0, 0, 0>>
zeros5 == <<0, 0, 0, 0, 0>>

\* results.append(r), len(results), on the bag that stands for the list
append(rs, r) == rs (+) SetToBag({r})
len(rs) == BagCardinality(rs)

\* xs[j] += 1 (j 0-based)
incr(xs, j) == [xs EXCEPT ![j + 1] = @ + 1]

\* lines 147-149 with the `not` of line 148 lost
count_violations_inverted(freqs, details) ==
    [j \in 1..Len(freqs) |-> IF details[j] THEN freqs[j] + 1 ELSE freqs[j]]

\* lines 147-149
count_violations(freqs, details) ==
    [j \in 1..Len(freqs) |-> IF ~details[j] THEN freqs[j] + 1 ELSE freqs[j]]

\* line 152 overwriting the totals with the temporary counters
merge_freqs_overwrite(freqs, temp) ==
    [j \in 1..Len(freqs) |-> temp[j]]

\* line 152
merge_freqs(freqs, temp) ==
    [j \in 1..Len(freqs) |-> freqs[j] + temp[j]]

\* line 169
positives_of(rs) == CopiesIn(TRUE, rs)

\* lines 126-127 without the removal: the start key stays among the end keys
copy_without_remove(start_key) ==
    [letters  |-> letters,
     end_keys |-> copy(letters)]

\* lines 126-127 without the copy: end_keys is the global list itself
alias_and_remove(start_key) ==
    [letters  |-> remove(letters, start_key),
     end_keys |-> remove(letters, start_key)]

\* lines 126-127: the two lists after
\*     end_keys = letters.copy(); end_keys.remove(start_key)
copy_and_remove(start_key) ==
    [letters  |-> letters,
     end_keys |-> remove(copy(letters), start_key)]

\* lines 116-121: the call, and the initialisation of the locals
StartSweep ==
    /\ CanCall
    /\ pc' = "for_start_key"
    /\ results' = EmptyBag
    /\ start_key_freqs' = zeros12
    /\ end_key_freqs' = zeros12
    /\ violation_freqs' = zeros5
    /\ end_keys' = <<>>
    /\ end_key_freqs_temp' = <<>>
    /\ it' = [start_key |-> 0, end_key |-> 0, note_1 |-> 0, note_2 |-> 0]
    /\ ret' = [status |-> "none"]
    /\ UNCHANGED <<scale_degrees, letters, call>>

\* lines 124-130: the next start_key, its end_keys and its temporary counters;
\* or the end of the outer loop
OuterBegin ==
    /\ pc = "for_start_key"
    /\ IF it.start_key < Len(letters)
       THEN /\ end_keys' = copy_and_remove(letters[it.start_key + 1]).end_keys
            /\ letters' = copy_and_remove(letters[it.start_key + 1]).letters
            /\ end_key_freqs_temp' = zeros12
            /\ it' = [it EXCEPT !.end_key = 0, !.note_1 = 0, !.note_2 = 0]
            /\ pc' = IF Len(end_keys') > 0 /\ Len(letters') > 0
                     THEN "body" ELSE "end_outer"
       ELSE /\ pc' = "assert"
            /\ UNCHANGED <<end_keys, end_key_freqs_temp, it, letters>>
    /\ UNCHANGED <<scale_degrees, call, results, start_key_freqs,
                   end_key_freqs, violation_freqs, ret>>

\* the loop positions after one pass of the innermost body (lines 133-137)
advance(pos) ==
    IF pos.note_2 + 1 < Len(letters)
    THEN [pos EXCEPT !.note_2 = @ + 1]
    ELSE IF pos.note_1 + 1 < Len(letters)
    THEN [pos EXCEPT !.note_1 = @ + 1, !.note_2 = 0]
    ELSE [pos EXCEPT !.end_key = @ + 1, !.note_1 = 0, !.note_2 = 0]

\* lines 133-149: one combination
InnerStep ==
    /\ pc = "body"
    /\ LET start_key == letters[it.start_key + 1]
           end_key   == end_keys[it.end_key + 1]
           note_1    == letters[it.note_1 + 1]
           note_2    == letters[it.note_2 + 1]
           out       == obeys_honerays_crit(start_key, end_key, note_1, note_2)
       IN  /\ call' = [op   |-> "obeys_honerays_crit",
                       args |-> <<start_key, end_key, note_1, note_2>>,
                       out  |-> out]
           /\ IF out.status = "raise"
              THEN /\ pc' = "raised"
                   /\ UNCHANGED <<results, start_key_freqs, end_key_freqs_temp,
                                  violation_freqs, it>>
              ELSE /\ results' = append(results, out.result)
                   /\ IF out.result
                      THEN /\ start_key_freqs' =
                                incr(start_key_freqs, index(letters, start_key))
                           /\ end_key_freqs_temp' =
                                incr(end_key_freqs_temp, index(letters, end_key))
                           /\ UNCHANGED violation_freqs
                      ELSE /\ violation_freqs' =
                                count_violations(violation_freqs, out.details)
                           /\ UNCHANGED <<start_key_freqs, end_key_freqs_temp>>
                   /\ it' = advance(it)
                   /\ pc' = IF it'.end_key < Len(end_keys) THEN "body" ELSE "end_outer"
    /\ UNCHANGED <<scale_degrees, letters, end_key_freqs, end_keys, ret>>

\* lines 152-162: the end of one pass of the outer loop
OuterEnd ==
    /\ pc = "end_outer"
    /\ end_key_freqs' = merge_freqs(end_key_freqs, end_key_freqs_temp)
    /\ it' = [it EXCEPT !.start_key = @ + 1]
    /\ pc' = "for_start_key"
    /\ UNCHANGED <<scale_degrees, letters, call, results, start_key_freqs,
                   violation_freqs, end_keys, end_key_freqs_temp, ret>>

\* lines 165-172: the assertion and the return; the frame is gone afterwards.
\* rand_prob, a quotient, is kept as the pair (numerator, denominator).
Finish ==
    /\ pc = "assert"
    /\ IF len(results) = 19008
       THEN /\ pc' = "done"
            /\ ret' = [status          |-> "return",
                       rand_prob       |-> <<positives_of(results), len(results)>>,
                       start_key_freqs |-> start_key_freqs,
                       end_key_freqs   |-> end_key_freqs,
                       violation_freqs |-> violation_freqs]
            /\ results' = EmptyBag
            /\ start_key_freqs' = <<>>
            /\ end_key_freqs' = <<>>
            /\ violation_freqs' = <<>>
            /\ end_keys' = <<>>
            /\ end_key_freqs_temp' = <<>>
            /\ it' = [start_key |-> 0, end_key |-> 0, note_1 |-> 0, note_2 |-> 0]
       ELSE /\ pc' = "AssertionError"
            /\ UNCHANGED sweepVars
    /\ UNCHANGED <<scale_degrees, letters, call>>

\* (the guard of the two calls is repeated before their inputs are drawn)
Next ==
    \/ CanCall /\ \E sk, ek, sl, el \in Inputs : Evaluate(sk, ek, sl, el)
    \/ CanCall /\ \E letter \in Inputs, x \in Args : MakeKey(letter, x)
    \/ Discard
    \/ StartSweep
    \/ OuterBegin
    \/ InnerStep
    \/ OuterEnd
    \/ Finish

Spec == Init /\ [][Next]_vars

(***************************************************************************)
(* Vocabulary of the properties.                                           *)
(***************************************************************************)
\* x is one of the 12 recognized letter names
Recognized(x) == contains(letters_init, x)

\* the pitch class of a recognized letter name
PitchClass(x) == index(letters_init, x)

\* the letter name t half-steps above x
Shifted(x, t) == letters_init[((PitchClass(x) + t) % 12) + 1]

\* the last call was obeys_honerays_crit on four recognized letters
ValidCall ==
    /\ call.op = "obeys_honerays_crit"
    /\ \A j \in 1..4 : Recognized(call.args[j])

\* the last call was obeys_honerays_crit with an unrecognized argument
InvalidCall ==
    /\ call.op = "obeys_honerays_crit"
    /\ \E j \in 1..4 : ~Recognized(call.args[j])

\* find_stats has been called and has not returned
InSweep == pc \in {"for_start_key", "body", "end_outer", "assert"}

RECURSIVE SumSeq(_)
SumSeq(xs) == IF xs = <<>> THEN 0 ELSE xs[1] + SumSeq(Tail(xs))

Pentatonic == {0, 2, 4, 7, 9}
Heptatonic == {0, 2, 4, 5, 6, 7, 9, 10, 11}

\* The five sub-conditions as functions of the four pitch classes alone
\* (tonics t1, t2 and notes a, b), in the order origin, interval, natural,
\* common, transition.
SubConditionsOf(t1, t2, a, b) ==
    LET s  == (a - t1) % 12      \* degree of the start note in the start key
        ms == (b - t2) % 12      \* degree of the end note in the end key
        c  == (b - a) % 12       \* transposition amount
    IN  << ((t1 - t2) % 12 \in Pentatonic) \/ ((t2 - t1) % 12 \in Pentatonic),
           c \notin {1, 6, 11},
           s \in Heptatonic /\ ms \in Heptatonic,
           s \in Pentatonic /\ ms \in Pentatonic /\ (s = ms \/ c = 0),
           \/ ((b - t1) % 12 \in Pentatonic /\ s \in Pentatonic)
           \/ ((a - t2) % 12 \in Pentatonic /\ ms \in Pentatonic) >>

(***************************************************************************)
(* C1.  For every recognized tonic letter the pair (k, k_inv) returned by  *)
(* key are exact inverses over 0..11: k_inv(k(d)) = d and k(k_inv(d)) = d  *)
(* for every d in 0..11, all results lying in 0..11.                       *)
(***************************************************************************)
KeyInverses ==
    (call.op = "key" /\ Recognized(call.args[1]) /\ call.args[2] \in 0..11)
        => /\ call.out.type = "tuple"
           /\ call.app.k \in 0..11
           /\ call.app.k_inv \in 0..11
           /\ call.app.k_inv_k = call.args[2]
           /\ call.app.k_k_inv = call.args[2]

\* key("G#") applied to 7: k wraps around (7 + 8 = 15) and k_inv undoes it
KeyInversesWitness ==
    /\ call.op = "key"
    /\ call.args = <<"G#", 7>>
    /\ call.app.k = 3
    /\ call.app.k_inv = 11
    /\ call.app.k_inv_k = 7
    /\ call.app.k_k_inv = 7

(***************************************************************************)
(* C2.  On four recognized letters obeys_honerays_crit returns a boolean   *)
(* result and a list of five booleans ordered (isOrigin, isInterval,       *)
(* isNatural, isCommon, isTransition), and                                 *)
(* result = details[0] and details[1] and details[2] and                   *)
(*          (details[3] or details[4]).                                    *)
(***************************************************************************)
CriterionVerdict ==
    ValidCall =>
        /\ call.out.status = "return"
        /\ call.out.result \in BOOLEAN
        /\ Len(call.out.details) = 5
        /\ \A j \in 1..5 : call.out.details[j] \in BOOLEAN
        /\ call.out.details =
              SubConditionsOf(PitchClass(call.args[1]), PitchClass(call.args[2]),
                              PitchClass(call.args[3]), PitchClass(call.args[4]))
        /\ call.out.result =
              (/\ call.out.details[1]
               /\ call.out.details[2]
               /\ call.out.details[3]
               /\ (call.out.details[4] \/ call.out.details[5]))

\* evaluate("C", "G", "E", "D"): true through isTransition alone, isCommon false
CriterionVerdictWitness ==
    /\ call.op = "obeys_honerays_crit"
    /\ call.args = <<"C", "G", "E", "D">>
    /\ call.out.status = "return"
    /\ call.out.result
    /\ call.out.details = <<TRUE, TRUE, TRUE, FALSE, TRUE>>

(***************************************************************************)
(* C3.  find_stats evaluates exactly 19008 combinations, never one whose   *)
(* end key is its start key, each combination once: the r-th evaluation    *)
(* (r = 0, 1, ...) is of the combination of rank r in the enumeration of   *)
(* the 12 * 11 * 12 * 12 combinations with distinct keys.  The assertion   *)
(* of line 166 never fails, the sweep never raises, and inside the loops   *)
(* the four positions point at elements of their lists.                    *)
(***************************************************************************)
\* the rank of a combination with distinct keys among all such combinations
Rank(start_key, end_key, note_1, note_2) ==
    LET a == PitchClass(start_key)
        b == PitchClass(end_key)
    IN  a * 1584 + (IF b > a THEN b - 1 ELSE b) * 144
            + PitchClass(note_1) * 12 + PitchClass(note_2)

\* all quadruples of recognized letters with distinct keys
DistinctKeyCombinations ==
    {q \in Inputs \X Inputs \X Inputs \X Inputs :
        /\ \A j \in 1..4 : Recognized(q[j])
        /\ q[1] # q[2]}

\* C3: exactly 19008 evaluations, none with equal keys, each combination once
SweepCount ==
    /\ pc \notin {"AssertionError", "raised"}
    /\ pc \in {"body", "end_outer"} =>
          /\ it.start_key < Len(letters)
          /\ Len(end_keys) = 11
          /\ ~contains(end_keys, letters[it.start_key + 1])
    /\ pc = "body" =>
          /\ it.end_key < Len(end_keys)
          /\ it.note_1 < Len(letters)
          /\ it.note_2 < Len(letters)
    /\ pc = "for_start_key" => len(results) = it.start_key * 1584
    /\ pc = "body" =>
          /\ len(results) = it.start_key * 1584 + it.end_key * 144
                               + it.note_1 * 12 + it.note_2
          /\ len(results) < 19008
    /\ pc = "end_outer" => len(results) = (it.start_key + 1) * 1584
    /\ (InSweep /\ len(results) > 0) =>
          /\ ValidCall
          /\ call.args[1] # call.args[2]
          /\ Rank(call.args[1], call.args[2], call.args[3], call.args[4])
                = len(results) - 1
    /\ pc = "assert" =>
          /\ len(results) = 19008
          /\ {Rank(q[1], q[2], q[3], q[4]) : q \in DistinctKeyCombinations}
                = 0..19007
          /\ Cardinality(DistinctKeyCombinations) = 19008
    /\ pc = "done" => ret.rand_prob[2] = 19008

\* the sweep is at the assertion of line 166 with 19008 results, the last
\* of them for the combination (B, A#, B, B)
SweepCountWitness ==
    /\ pc = "assert"
    /\ len(results) = 19008
    /\ call.args = <<"B", "A#", "B", "B">>

(***************************************************************************)
(* C4.  At the end of every pass of the outer loop, and when find_stats    *)
(* returns, the per-start-key counts and the per-end-key counts have the   *)
(* same sum, the number of true verdicts so far (at return: the numerator  *)
(* of the returned fraction).                                              *)
(***************************************************************************)
SumsAgree ==
    /\ InSweep =>
          SumSeq(start_key_freqs) =
              SumSeq(end_key_freqs)
                + (IF pc \in {"body", "end_outer"}
                   THEN SumSeq(end_key_freqs_temp) ELSE 0)
    /\ pc \in {"for_start_key", "assert"} =>
          /\ SumSeq(start_key_freqs) = positives_of(results)
          /\ SumSeq(end_key_freqs) = positives_of(results)
    /\ pc = "done" =>
          /\ SumSeq(ret.start_key_freqs) = ret.rand_prob[1]
          /\ SumSeq(ret.end_key_freqs) = ret.rand_prob[1]

\* find_stats has returned with some valid modulations counted
SumsAgreeWitness ==
    /\ pc = "done"
    /\ ret.status = "return"
    /\ ret.rand_prob[1] > 0
    /\ SumSeq(ret.start_key_freqs) = ret.rand_prob[1]
    /\ SumSeq(ret.end_key_freqs) = ret.rand_prob[1]

(***************************************************************************)
(* C5.  If any of the four arguments of obeys_honerays_crit is not one of  *)
(* the 12 letter names, the call raises before any of the five             *)
(* sub-conditions (lines 104-108) is evaluated and returns no verdict; and *)
(* key(letter) on an unrecognized letter fails (raises) instead of         *)
(* returning.                                                              *)
(***************************************************************************)
InvalidLetterFails ==
    /\ InvalidCall =>
          /\ call.out.status = "raise"
          /\ call.out.line < 104
    /\ (call.op = "key" /\ ~Recognized(call.args[1])) =>
          call.out.type \notin {"int", "tuple"}

(***************************************************************************)
(* C6.  obeys_honerays_crit is deterministic and leaves the shared state   *)
(* alone: whenever it is called on four recognized letters, before, inside *)
(* or after any number of other calls and runs of find_stats, it returns   *)
(* the same (result, details), a function of the four pitch classes alone; *)
(* and the global tables letters and scale_degrees never change.           *)
(***************************************************************************)
Deterministic ==
    /\ letters = letters_init
    /\ scale_degrees = scale_degrees_init
    /\ ValidCall =>
          LET d == SubConditionsOf(PitchClass(call.args[1]), PitchClass(call.args[2]),
                                   PitchClass(call.args[3]), PitchClass(call.args[4]))
          IN  /\ call.out.status = "return"
              /\ call.out.details = d
              /\ call.out.result = (d[1] /\ d[2] /\ d[3] /\ (d[4] \/ d[5]))

\* evaluate("C", "G", "E", "D") called after a complete run of find_stats
\* gives what it gives before one
DeterministicWitness ==
    /\ pc = "done"
    /\ ret.status = "return"
    /\ call.op = "obeys_honerays_crit"
    /\ call.args = <<"C", "G", "E", "D">>
    /\ call.out.status = "return"
    /\ call.out.result
    /\ call.out.details = <<TRUE, TRUE, TRUE, FALSE, TRUE>>
    /\ letters = letters_init

(***************************************************************************)
(* C7.  In find_stats, a combination whose verdict is true changes no      *)
(* violation counter; one whose verdict is false adds exactly 1 to         *)
(* violation_freqs[i] for every i with details[i] false and leaves the     *)
(* others.  So every violation_freqs[i] is at most the number of false     *)
(* verdicts: validCount + violation_freqs[i] <= 19008 at return.           *)
(***************************************************************************)
ViolationCounting ==
    [][ /\ (pc = "body" /\ pc' # "raised") =>
              /\ len(results') = len(results) + 1
              /\ positives_of(results') =
                    positives_of(results) + (IF call'.out.result THEN 1 ELSE 0)
              /\ call'.out.result => violation_freqs' = violation_freqs
              /\ ~call'.out.result =>
                    \A j \in 1..5 :
                        violation_freqs'[j] =
                            violation_freqs[j]
                              + (IF call'.out.details[j] THEN 0 ELSE 1)
        /\ (InSweep /\ pc # "body" /\ InSweep') =>
              violation_freqs' = violation_freqs
        /\ InSweep' =>
              \A j \in 1..5 :
                  violation_freqs'[j] + positives_of(results') <= len(results')
        /\ pc' = "done" =>
              \A j \in 1..5 :
                  /\ ret'.violation_freqs[j] <= 19008 - ret'.rand_prob[1]
                  /\ ret'.rand_prob[1] + ret'.violation_freqs[j] <= 19008
      ]_vars

\* a false verdict with two sub-conditions false at once has been counted
\* in both counters
ViolationCountingWitness ==
    /\ pc = "body"
    /\ call.op = "obeys_honerays_crit"
    /\ call.out.status = "return"
    /\ ~call.out.result
    /\ ~call.out.details[1]
    /\ ~call.out.details[2]
    /\ violation_freqs[1] > 0
    /\ violation_freqs[2] > 0
    /\ positives_of(results) > 0

(***************************************************************************)
(* C8.  On four recognized letters every intermediate quantity of          *)
(* obeys_honerays_crit lies in 0..11, so the out-of-range branches of k,   *)
(* k_inv, m, w, n, i are not taken, from a direct call or from find_stats. *)
(***************************************************************************)
LocalNames ==
    {"s", "c", "kx1_s", "p_kx1_s", "m_s", "kx2_m_s", "origin_1", "origin_2",
     "kx1_0", "kx2_0", "bridge_1", "bridge_2"}

\* C8: every intermediate quantity of a call on recognized letters is in 0..11
InRange ==
    /\ ValidCall =>
          /\ call.out.status = "return"
          /\ DOMAIN call.out.locals = LocalNames
          /\ \A f \in LocalNames : call.out.locals[f] \in 0..11
    /\ (InSweep /\ len(results) > 0) => ValidCall
    /\ pc # "raised"

\* inside find_stats, a combination whose degree and shift are both 11
InRangeWitness ==
    /\ pc = "body"
    /\ ValidCall
    /\ call.out.locals.s = 11
    /\ call.out.locals.c = 11
    /\ call.out.locals.m_s \in 0..11

(***************************************************************************)
(* C9.  obeys_honerays_crit is invariant under transposing its four        *)
(* arguments together by any t in 0..11; hence find_stats returns 12 equal *)
(* entries in start_key_freqs and 12 equal entries in end_key_freqs.       *)
(***************************************************************************)
TranspositionInvariant ==
    /\ ValidCall =>
          \A t \in 0..11 :
              LET o == obeys_honerays_crit(Shifted(call.args[1], t),
                                           Shifted(call.args[2], t),
                                           Shifted(call.args[3], t),
                                           Shifted(call.args[4], t))
              IN  /\ o.status = "return"
                  /\ call.out.status = "return"
                  /\ o.result = call.out.result
                  /\ o.details = call.out.details
    /\ pc = "done" =>
          /\ Len(ret.start_key_freqs) = 12
          /\ Len(ret.end_key_freqs) = 12
          /\ \A j \in 1..12 :
                /\ ret.start_key_freqs[j] = ret.start_key_freqs[1]
                /\ ret.end_key_freqs[j] = ret.end_key_freqs[1]

\* find_stats has returned equal, non-zero counts for the first and last key
TranspositionInvariantWitness ==
    /\ pc = "done"
    /\ ret.status = "return"
    /\ ret.start_key_freqs[1] > 0
    /\ ret.start_key_freqs[12] = ret.start_key_freqs[1]
    /\ ret.end_key_freqs[12] = ret.end_key_freqs[1]
    /\ ValidCall

(***************************************************************************)
(* C10.  On four recognized letters kx2(m(s)) = p(kx1(s)), so isInterval   *)
(* depends only on c = (index(end_letter) - index(start_letter)) mod 12:   *)
(* it is false exactly when c is 1, 6 or 11, and so true when the two      *)
(* letters coincide.                                                       *)
(***************************************************************************)
IntervalByShift ==
    ValidCall =>
        /\ call.out.status = "return"
        /\ call.out.locals.kx2_m_s = call.out.locals.p_kx1_s
        /\ call.out.locals.c =
              (PitchClass(call.args[4]) - PitchClass(call.args[3])) % 12
        /\ call.out.details[2] = (call.out.locals.c \notin {1, 6, 11})
        /\ call.args[3] = call.args[4] => call.out.details[2]

\* a shift of 8 half-steps, admissible only through its complement 12 - 8 = 4
IntervalByShiftWitness ==
    /\ ValidCall
    /\ call.out.status = "return"
    /\ call.out.locals.c = 8
    /\ call.out.details[2]

====
